---- MODULE Spec2Model ----
(***************************************************************************)
(* A model of mlpack's hpt::CVFunction (cv_function_impl.hpp): the adapter  *)
(* that interleaves bound arguments with the optimizer's parameter vector, *)
(* calls the cross-validation object and keeps the best model seen so far. *)
(*                                                                         *)
(* The template recursion Evaluate<B, P> -> PutNextArg<B, P> ->            *)
(* Evaluate<B', P'> is modelled as a walk, one action per instantiation.   *)
(* Slot and tuple positions are 0-based as in the source; TLA+ sequences   *)
(* are 1-based, hence the "+ 1" on every sequence access.                  *)
(***************************************************************************)
EXTENDS Integers, Sequences, FiniteSets

(* ---------------------------- bounds ----------------------------------- *)
MaxTotalArgs == 3
MaxBoundArgs == 2
MaxEvals == 2

(* std::numeric_limits<double>::max(), scaled down: the scores are the     *)
(* finite doubles 1..DBL_MAX, lower is better.                              *)
DBL_MAX == 3
Scores == 1..DBL_MAX

(* Inputs.  The k-th bound argument (0-based) carries the value            *)
(* 10 * (v + 1) + k and the p-th parameter entry the value 50 + 10 * v + p, *)
(* for a variant v: values tell their own position and the two kinds apart. *)
Variants == {0, 1}
BoundValue(v, k) == 10 * (v + 1) + k
ParamValue(v, p) == 50 + 10 * v + p
GarbageValues == {98, 99}

BoundArgsTuples ==
  UNION {{[k \in 1..n |-> [index |-> idx[k], value |-> BoundValue(v, k - 1)]] :
            idx \in [1..n -> 0..MaxTotalArgs], v \in Variants} :
         n \in 0..MaxBoundArgs}
ParamVectors ==
  UNION {{[p \in 1..n |-> ParamValue(v, p - 1)] : v \in Variants} :
         n \in 0..MaxTotalArgs}

NoResult == [kind |-> "none", value |-> 0]
CvError == [kind |-> "cv_error", value |-> 0]
LogicError == [kind |-> "logic_error", value |-> 0]
ScoreResult(s) == [kind |-> "score", value |-> s]

VARIABLES
  TotalArgs,      \* template parameter TotalArgs
  boundArgs,      \* member boundArgs: the tuple of BoundArgs (index, value)
  bestObjective,  \* member bestObjective
  bestModel,      \* member bestModel: id of the model held, 0 = default-constructed
  cvModel,        \* the model held by cv: id of the producing call, 0 = none / moved-from
  pc,             \* position of the one Evaluate call in progress
  parameters,     \* argument of Evaluate
  BoundArgIndex,  \* template parameter of the current instantiation
  ParamIndex,     \* template parameter of the current instantiation
  args,           \* the pack args... accumulated so far
  objective,      \* local of the final overload
  result,         \* what the last Evaluate call gave the optimizer
  scores,         \* history: the scores cv.Evaluate has returned, in order
  srcs,           \* history: the source of each slot filled in this call
  cvCallsInEval,  \* history: cv.Evaluate invocations made by the last/current call
  cvFailed,       \* history: cv.Evaluate threw during the last/current call
  trackerAtEntry, \* history: <<bestObjective, bestModel>> when the call was entered
  evals           \* history: number of Evaluate calls started

vars == <<TotalArgs, boundArgs, bestObjective, bestModel, cvModel, pc, parameters,
          BoundArgIndex, ParamIndex, args, objective, result, scores, srcs,
          cvCallsInEval, cvFailed, trackerAtEntry, evals>>

config == <<TotalArgs, boundArgs>>
tracker == <<bestObjective, bestModel>>

BoundArgsAmount == Len(boundArgs)

(* ------------------------- UseBoundArg --------------------------------- *)
(* Mutant: the comparison forgets the bound arguments already placed. *)
UseBoundArgTrue_NoOffset(B, P) == boundArgs[B + 1].index = P

UseBoundArgTrue(B, P) == boundArgs[B + 1].index = B + P

UseBoundArgFalse == FALSE

BoundArgsIndexInRange(B) == B < BoundArgsAmount

UseBoundArg(B, P) ==
  IF BoundArgsIndexInRange(B) THEN UseBoundArgTrue(B, P) ELSE UseBoundArgFalse

(* ------------------------- constructor --------------------------------- *)
Init ==
  /\ TotalArgs \in 0..MaxTotalArgs
  /\ boundArgs \in BoundArgsTuples
  /\ bestObjective = DBL_MAX
  /\ bestModel = 0
  /\ cvModel = 0
  /\ pc = "idle"
  /\ parameters = <<>>
  /\ BoundArgIndex = 0
  /\ ParamIndex = 0
  /\ args = <<>>
  /\ objective = 0
  /\ result = NoResult
  /\ scores = <<>>
  /\ srcs = <<>>
  /\ cvCallsInEval = 0
  /\ cvFailed = FALSE
  /\ trackerAtEntry = <<DBL_MAX, 0>>
  /\ evals = 0

(* The frame of the Evaluate call is gone once the call has ended. *)
FrameGone ==
  /\ parameters' = <<>>
  /\ BoundArgIndex' = 0
  /\ ParamIndex' = 0
  /\ args' = <<>>
  /\ objective' = 0
  /\ srcs' = <<>>

(* ------------------- Evaluate(parameters) ------------------------------ *)
EvaluateEntry ==
  /\ pc = "idle"
  /\ evals < MaxEvals
  /\ \E p \in ParamVectors : parameters' = p
  /\ BoundArgIndex' = 0
  /\ ParamIndex' = 0
  /\ args' = <<>>
  /\ srcs' = <<>>
  /\ objective' = 0
  /\ cvCallsInEval' = 0
  /\ cvFailed' = FALSE
  /\ trackerAtEntry' = <<bestObjective, bestModel>>
  /\ result' = NoResult
  /\ evals' = evals + 1
  /\ pc' = "walk"
  /\ UNCHANGED <<config, tracker, cvModel, scores>>

EvaluateRecursiveEnabled == BoundArgIndex + ParamIndex < TotalArgs

EvaluateFinalEnabled == BoundArgIndex + ParamIndex = TotalArgs

(* ------------------------- PutNextArg ---------------------------------- *)
(* Mutant: the bound overload recurses as the parameter overload does. *)
PutNextArgBound_AdvancesParam ==
  /\ pc = "walk"
  /\ EvaluateRecursiveEnabled
  /\ UseBoundArg(BoundArgIndex, ParamIndex)
  /\ args' = Append(args, boundArgs[BoundArgIndex + 1].value)
  /\ srcs' = Append(srcs, [from |-> "bound", pos |-> BoundArgIndex])
  /\ ParamIndex' = ParamIndex + 1
  /\ UNCHANGED <<config, tracker, cvModel, pc, parameters, BoundArgIndex, objective,
                 result, scores, cvCallsInEval, cvFailed, trackerAtEntry, evals>>

PutNextArgBound ==
  /\ pc = "walk"
  /\ EvaluateRecursiveEnabled
  /\ UseBoundArg(BoundArgIndex, ParamIndex)
  /\ args' = Append(args, boundArgs[BoundArgIndex + 1].value)
  /\ srcs' = Append(srcs, [from |-> "bound", pos |-> BoundArgIndex])
  /\ BoundArgIndex' = BoundArgIndex + 1
  /\ UNCHANGED <<config, tracker, cvModel, pc, parameters, ParamIndex, objective,
                 result, scores, cvCallsInEval, cvFailed, trackerAtEntry, evals>>

(* Mutant: every parameter slot reads parameters(0, 0). *)
PutNextArgParam_FirstEntry ==
  /\ pc = "walk"
  /\ EvaluateRecursiveEnabled
  /\ ~UseBoundArg(BoundArgIndex, ParamIndex)
  /\ ParamIndex < Len(parameters)
  /\ args' = Append(args, parameters[1])
  /\ srcs' = Append(srcs, [from |-> "param", pos |-> ParamIndex])
  /\ ParamIndex' = ParamIndex + 1
  /\ UNCHANGED <<config, tracker, cvModel, pc, parameters, BoundArgIndex, objective,
                 result, scores, cvCallsInEval, cvFailed, trackerAtEntry, evals>>

PutNextArgParam ==
  /\ pc = "walk"
  /\ EvaluateRecursiveEnabled
  /\ ~UseBoundArg(BoundArgIndex, ParamIndex)
  /\ ParamIndex < Len(parameters)
  /\ args' = Append(args, parameters[ParamIndex + 1])
  /\ srcs' = Append(srcs, [from |-> "param", pos |-> ParamIndex])
  /\ ParamIndex' = ParamIndex + 1
  /\ UNCHANGED <<config, tracker, cvModel, pc, parameters, BoundArgIndex, objective,
                 result, scores, cvCallsInEval, cvFailed, trackerAtEntry, evals>>

(* parameters(ParamIndex, 0) past the end of the matrix: Armadillo throws   *)
(* std::logic_error when its bounds checks are compiled in; without them    *)
(* (ARMA_NO_DEBUG) the read is undefined and yields an arbitrary double.    *)
PutNextArgParamOutOfBoundsGarbage ==
  /\ pc = "walk"
  /\ EvaluateRecursiveEnabled
  /\ ~UseBoundArg(BoundArgIndex, ParamIndex)
  /\ ParamIndex >= Len(parameters)
  /\ \E v \in GarbageValues : args' = Append(args, v)
  /\ srcs' = Append(srcs, [from |-> "param", pos |-> ParamIndex])
  /\ ParamIndex' = ParamIndex + 1
  /\ UNCHANGED <<config, tracker, cvModel, pc, parameters, BoundArgIndex, objective,
                 result, scores, cvCallsInEval, cvFailed, trackerAtEntry, evals>>

PutNextArgParamOutOfBoundsThrow ==
  /\ pc = "walk"
  /\ EvaluateRecursiveEnabled
  /\ ~UseBoundArg(BoundArgIndex, ParamIndex)
  /\ ParamIndex >= Len(parameters)
  /\ result' = LogicError
  /\ pc' = "idle"
  /\ FrameGone
  /\ UNCHANGED <<config, tracker, cvModel, scores, cvCallsInEval, cvFailed,
                 trackerAtEntry, evals>>

(* ------------------- Evaluate, final overload -------------------------- *)
CvEvaluateCall ==
  /\ pc = "walk"
  /\ EvaluateFinalEnabled
  /\ cvCallsInEval' = cvCallsInEval + 1
  /\ pc' = "cv"
  /\ UNCHANGED <<config, tracker, cvModel, parameters, BoundArgIndex, ParamIndex,
                 args, objective, result, scores, srcs, cvFailed, trackerAtEntry,
                 evals>>

CvEvaluateReturn ==
  /\ pc = "cv"
  /\ \E s \in Scores :
       /\ objective' = s
       /\ scores' = Append(scores, s)
  /\ cvModel' = Len(scores) + 1
  /\ pc' = "track"
  /\ UNCHANGED <<config, tracker, parameters, BoundArgIndex, ParamIndex, args,
                 result, srcs, cvCallsInEval, cvFailed, trackerAtEntry, evals>>

(* Mutant: the failure is caught and the worst score stands in for it. *)
CvEvaluateThrow_Swallowed ==
  /\ pc = "cv"
  /\ cvFailed' = TRUE
  /\ cvModel' = 0
  /\ objective' = DBL_MAX
  /\ pc' = "track"
  /\ UNCHANGED <<config, tracker, parameters, BoundArgIndex, ParamIndex, args,
                 result, scores, srcs, cvCallsInEval, trackerAtEntry, evals>>

CvEvaluateThrow ==
  /\ pc = "cv"
  /\ cvFailed' = TRUE
  /\ cvModel' = 0
  /\ result' = CvError
  /\ pc' = "idle"
  /\ FrameGone
  /\ UNCHANGED <<config, tracker, scores, cvCallsInEval, trackerAtEntry, evals>>

(* Mutant: the test for "no model assigned yet" is left out. *)
BetterOrUnassigned_NoSentinel == bestObjective > objective

BetterOrUnassigned == bestObjective > objective \/ bestObjective = DBL_MAX

(* Mutant: the model is taken from cv outside the if. *)
UpdateBest_ModelAlways ==
  /\ pc = "track"
  /\ bestObjective' = IF BetterOrUnassigned THEN objective ELSE bestObjective
  /\ bestModel' = cvModel
  /\ cvModel' = 0
  /\ pc' = "ret"
  /\ UNCHANGED <<config, parameters, BoundArgIndex, ParamIndex, args, objective,
                 result, scores, srcs, cvCallsInEval, cvFailed, trackerAtEntry, evals>>

UpdateBest ==
  /\ pc = "track"
  /\ IF BetterOrUnassigned
       THEN /\ bestObjective' = objective
            /\ bestModel' = cvModel
            /\ cvModel' = 0
       ELSE UNCHANGED <<tracker, cvModel>>
  /\ pc' = "ret"
  /\ UNCHANGED <<config, parameters, BoundArgIndex, ParamIndex, args, objective,
                 result, scores, srcs, cvCallsInEval, cvFailed, trackerAtEntry, evals>>

(* Mutant: the best score is returned in place of this call's score. *)
ReturnObjective_ReturnsBest ==
  /\ pc = "ret"
  /\ result' = ScoreResult(bestObjective)
  /\ pc' = "idle"
  /\ FrameGone
  /\ UNCHANGED <<config, tracker, cvModel, scores, cvCallsInEval, cvFailed,
                 trackerAtEntry, evals>>

ReturnObjective ==
  /\ pc = "ret"
  /\ result' = ScoreResult(objective)
  /\ pc' = "idle"
  /\ FrameGone
  /\ UNCHANGED <<config, tracker, cvModel, scores, cvCallsInEval, cvFailed,
                 trackerAtEntry, evals>>

Next ==
  \/ EvaluateEntry
  \/ PutNextArgBound
  \/ PutNextArgParam
  \/ PutNextArgParamOutOfBoundsGarbage
  \/ PutNextArgParamOutOfBoundsThrow
  \/ CvEvaluateCall
  \/ CvEvaluateReturn
  \/ CvEvaluateThrow
  \/ UpdateBest
  \/ ReturnObjective

Spec == Init /\ [][Next]_vars

(* ======================= properties ==================================== *)
InCall == pc \in {"walk", "cv", "track", "ret"}

(* The BoundArgumentSet invariant: indices strictly increasing, all in     *)
(* [0, TotalArgs).                                                         *)
ValidConfig ==
  \A k \in 1..BoundArgsAmount :
    /\ boundArgs[k].index \in 0..(TotalArgs - 1)
    /\ \A j \in 1..(k - 1) : boundArgs[j].index < boundArgs[k].index

BoundIndices == {boundArgs[k].index : k \in 1..BoundArgsAmount}
BoundAt(i) == CHOOSE k \in 1..BoundArgsAmount : boundArgs[k].index = i
Rank(i) == Cardinality({j \in 0..(i - 1) : j \notin BoundIndices})
NumParams == TotalArgs - BoundArgsAmount

(* A call as the interface describes it: a valid configuration and a       *)
(* parameter vector with one entry per non-bound slot.                     *)
WellFormedCall == ValidConfig /\ Len(parameters) = NumParams

(* C1: for a valid bound-argument index set and a parameter vector of       *)
(* length TotalArgs - |bound set|, the argument list handed to cv.Evaluate *)
(* has length TotalArgs; slot i holds the value of the bound argument whose *)
(* index is i, or else the parameter entry at the rank of i among the      *)
(* non-bound slots.                                                        *)
C1_ArgumentListAssembled ==
  (pc = "cv" /\ WellFormedCall) =>
    /\ Len(args) = TotalArgs
    /\ \A i \in 0..(TotalArgs - 1) :
         args[i + 1] = IF i \in BoundIndices
                         THEN boundArgs[BoundAt(i)].value
                         ELSE parameters[Rank(i) + 1]

C1_Witness ==
  /\ pc = "cv"
  /\ WellFormedCall
  /\ TotalArgs = 3
  /\ BoundIndices = {0, 2}
  /\ args = <<boundArgs[1].value, parameters[1], boundArgs[2].value>>

MinOf(S) == CHOOSE x \in S : \A y \in S : x <= y
MinScore == MinOf({scores[k] : k \in 1..Len(scores)})
FirstMinEval == MinOf({k \in 1..Len(scores) : scores[k] = MinScore})

(* The evaluations whose score the tracker has already been shown. *)
Tracked == IF pc = "track" THEN Len(scores) - 1 ELSE Len(scores)

(* C2 (as claimed): after n >= 1 successful evaluations the best score is   *)
(* the minimum of their scores and the best model is the one produced by   *)
(* the earliest evaluation that scored that minimum.                       *)
C2_BestIsFirstMinimum ==
  (ValidConfig /\ pc = "idle" /\ Len(scores) >= 1) =>
    /\ bestObjective = MinScore
    /\ bestModel = FirstMinEval

(* C3: before any successful evaluation the best score is the constructor's *)
(* sentinel and no model is held; once exactly one evaluation has scored s, *)
(* the best score is s and the best model is that evaluation's model,      *)
(* whatever s is.                                                          *)
C3_FirstCallInitialization ==
  /\ Tracked = 0 => (bestObjective = DBL_MAX /\ bestModel = 0)
  /\ Tracked = 1 => (bestObjective = scores[1] /\ bestModel = 1)

C3_Witness ==
  /\ pc = "idle"
  /\ scores = <<DBL_MAX>>
  /\ bestObjective = DBL_MAX
  /\ bestModel = 1

(* C4 (as claimed): once an evaluation has completed, an evaluation whose   *)
(* score is not strictly lower than the stored best score leaves the best  *)
(* score and the best model as they were.                                  *)
C4_NoReplaceUnlessStrictlyBetter ==
  (ValidConfig /\ pc = "ret" /\ Len(scores) >= 2 /\ objective >= trackerAtEntry[1]) =>
    <<bestObjective, bestModel>> = trackerAtEntry

(* C5 (as claimed): a configuration whose indices are not strictly          *)
(* increasing, are duplicated or fall outside [0, TotalArgs) is rejected   *)
(* before the first evaluation: no call on it reaches cv.Evaluate.         *)
C5_InvalidConfigNeverReachesCv ==
  ~ValidConfig => pc # "cv"

(* C6: when cv.Evaluate fails, the call ends with that failure, cv.Evaluate *)
(* was invoked once by it, no score was returned and the best score and    *)
(* model are those the call started with.                                  *)
C6_FailurePropagates ==
  cvFailed =>
    /\ pc = "idle"
    /\ result = CvError
    /\ cvCallsInEval = 1
    /\ <<bestObjective, bestModel>> = trackerAtEntry

C6_Witness ==
  /\ cvFailed
  /\ result = CvError
  /\ Len(scores) = 1
  /\ bestModel = 1

C7_State ==
  /\ cvCallsInEval <= 1
  /\ pc = "cv" => Len(args) = TotalArgs
  /\ pc \in {"cv", "track", "ret"} => cvCallsInEval = 1
  /\ pc = "ret" => bestObjective <= objective
  /\ (pc = "idle" /\ result.kind = "score") =>
       /\ cvCallsInEval = 1
       /\ result.value = scores[Len(scores)]

C7_Step ==
  /\ (pc = "walk" /\ WellFormedCall) => result'.kind # "logic_error"
  /\ (InCall /\ pc' = "idle" /\ WellFormedCall) => cvCallsInEval' = 1
  /\ (pc = "ret" /\ pc' = "idle") =>
       (result' = ScoreResult(objective) /\ UNCHANGED tracker)

(* C7: a call with a valid configuration and a parameter vector of the      *)
(* right length, TotalArgs = 0 included, invokes cv.Evaluate exactly once, *)
(* only once all TotalArgs slots are filled, and returns the score that    *)
(* invocation produced, the tracker having seen that score before the      *)
(* return.                                                                 *)
C7_OneCvCallScoreReturned == [](C7_State) /\ [][C7_Step]_vars

C7_Witness ==
  /\ pc = "idle"
  /\ TotalArgs = 0
  /\ boundArgs = <<>>
  /\ result = ScoreResult(1)
  /\ cvCallsInEval = 1
  /\ bestObjective = 1

(* The slot-source assignment as a function of the bound arguments'        *)
(* indices and TotalArgs alone.                                            *)
RECURSIVE PlanFrom(_, _, _, _)
PlanFrom(idx, total, b, p) ==
  IF b + p >= total THEN <<>>
  ELSE IF b < Len(idx) /\ idx[b + 1] = b + p
    THEN <<[from |-> "bound", pos |-> b]>> \o PlanFrom(idx, total, b + 1, p)
    ELSE <<[from |-> "param", pos |-> p]>> \o PlanFrom(idx, total, b, p + 1)

BoundIndexSeq == [k \in 1..BoundArgsAmount |-> boundArgs[k].index]
SlotSourceAssignment == PlanFrom(BoundIndexSeq, TotalArgs, 0, 0)

(* C8: the sources of the slots filled by a call are those of the          *)
(* assignment the bound-argument indices and TotalArgs determine, whatever *)
(* the parameter values, the bound values and the tracker state.           *)
C8_AssignmentFromPositionsOnly ==
  InCall =>
    /\ Len(srcs) <= Len(SlotSourceAssignment)
    /\ srcs = SubSeq(SlotSourceAssignment, 1, Len(srcs))
    /\ pc # "walk" => srcs = SlotSourceAssignment

C8_Witness ==
  /\ pc = "cv"
  /\ evals = 2
  /\ bestModel = 1
  /\ BoundArgsAmount = 2
  /\ boundArgs[1].value = BoundValue(1, 0)
  /\ parameters = <<ParamValue(1, 0)>>
  /\ srcs = <<[from |-> "bound", pos |-> 0], [from |-> "param", pos |-> 0],
              [from |-> "bound", pos |-> 1]>>

C9_State ==
  pc = "walk" =>
    /\ BoundArgIndex + ParamIndex = Len(args)
    /\ Len(srcs) = Len(args)
    /\ BoundArgIndex <= BoundArgsAmount

C9_Step ==
  (pc = "walk" /\ pc' = "walk") =>
    IF /\ BoundArgIndex < BoundArgsAmount
       /\ boundArgs[BoundArgIndex + 1].index = BoundArgIndex + ParamIndex
      THEN /\ args' = Append(args, boundArgs[BoundArgIndex + 1].value)
           /\ BoundArgIndex' = BoundArgIndex + 1
           /\ ParamIndex' = ParamIndex
      ELSE /\ ParamIndex < Len(parameters) =>
                args' = Append(args, parameters[ParamIndex + 1])
           /\ Len(args') = Len(args) + 1
           /\ ParamIndex' = ParamIndex + 1
           /\ BoundArgIndex' = BoundArgIndex

(* C9: during the walk the slot index BoundArgIndex + ParamIndex is the     *)
(* length of the argument list so far; a step takes the next bound         *)
(* argument exactly when one is left and its index is the slot index, and  *)
(* otherwise the parameter entry at ParamIndex, advancing ParamIndex.      *)
C9_WalkInvariant == [](C9_State) /\ [][C9_Step]_vars

C9_Witness ==
  /\ pc = "walk"
  /\ BoundArgsAmount = 1
  /\ BoundArgIndex = 1
  /\ ParamIndex = 2
  /\ TotalArgs = 3
  /\ Len(parameters) = 2
  /\ args = <<boundArgs[1].value, parameters[1], parameters[2]>>

C10_State ==
  Tracked >= 1 =>
    /\ bestModel \in 1..Tracked
    /\ scores[bestModel] = bestObjective

C10_Step ==
  (bestModel' # bestModel \/ bestObjective' # bestObjective) =>
    /\ pc = "track"
    /\ cvModel = Len(scores)
    /\ bestModel' = cvModel
    /\ bestObjective' = scores[Len(scores)]

(* C10: once an evaluation has completed, the best model is the model of    *)
(* the evaluation whose score is the best score; the tracker changes only  *)
(* right after cv.Evaluate returned in the same call, taking that call's   *)
(* model and score together.                                               *)
C10_ModelMatchesScore == [](C10_State) /\ [][C10_Step]_vars

C10_Witness ==
  /\ pc = "idle"
  /\ scores = <<2, 1>>
  /\ bestModel = 2
  /\ bestObjective = 1

====
